---- MODULE Spec2Model ----
(***************************************************************************)
(* Model of the secureblog Django project: the login / MFA flow with its   *)
(* cache-backed rate limiter (accounts.views, security.middleware), the    *)
(* blog views (post_edit, post_like, ...), the HTML sanitising done by     *)
(* Post.save, and the link-preview fetcher.                                *)
(***************************************************************************)
EXTENDS Integers, Sequences, FiniteSets, TLC

None == "None"

\* ---------------------------------------------------------------- universe
Users == {"alice", "bob"}
\* what a login POST carries: well-formed and correct credentials, a
\* well-formed username with a wrong password, or a value a field validator
\* rejects (or a missing field)
Creds == {"ok", "wrong", "malformed"}

\* the threshold `attempts >= 5` of both rate-limit checks
RATE_LIMIT == 5
\* the timeout of cache.set(key, attempts + 1, 300)
CACHE_TIMEOUT == 300

\* seconds that pass in one step of the clock
TickStep == 150
\* TOTPDevice rows ever created
MaxDevices == 2
\* LoginAttempt rows ever created
MaxLoginAttempts == 1

VARIABLES
    session_user,    \* session -> the user it is authenticated as, or None
    pre_otp_user_id, \* session -> request.session['pre_otp_user_id'], or None
    cache,           \* client IP -> the entry of key login_attempts_<ip>
    mfa_enabled,     \* user -> UserProfile.mfa_enabled
    devices,         \* the TOTPDevice rows
    next_device_id,  \* the next primary key of TOTPDevice
    login_attempts,  \* the LoginAttempt rows, oldest first
    resp,            \* the answer to the last request
    pwd_accepted,    \* history: session -> users whose password login_view accepted in it
    life,            \* history: client IP -> the login POSTs since its counter key was last absent
    recent,          \* history: client IP -> ages of its login POSTs of the last CACHE_TIMEOUT seconds
    posts,           \* the Post rows: primary key -> row
    next_post_id,    \* the next primary key of Post
    likes,           \* the PostLike rows
    next_like_id,    \* the next primary key of PostLike
    now,             \* timezone.now() as the blog sees it
    like_prev,       \* history: (user, post) -> the last answered post_like request of the pair
    stored,          \* rich-text field -> the value stored in it
    th,              \* worker thread -> the request it is handling
    preview,         \* the last link-preview request and its answer
    comments,        \* the Comment rows
    categories,      \* the Category rows
    checked,         \* history: client IP -> login POSTs whose credentials were looked at
                     \*          since its counter key was last absent
    uploads          \* the files default_storage holds under CKEDITOR_5_UPLOAD_PATH

authVars == <<session_user, pre_otp_user_id, cache, mfa_enabled, devices,
              next_device_id, login_attempts, pwd_accepted, life, recent>>

blogVars == <<posts, next_post_id, likes, next_like_id, now, like_prev>>

vars == <<session_user, pre_otp_user_id, cache, mfa_enabled, devices,
          next_device_id, login_attempts, resp, pwd_accepted, life, recent,
          posts, next_post_id, likes, next_like_id, now, like_prev, stored, th, preview,
          comments, categories, checked, uploads>>

\* the rows and the history only some of the specifications move
moreVars == <<comments, categories, checked, uploads>>

sideVars == <<stored, th, preview, comments, categories, checked, uploads>>

\* the sessions are the keys of session_user, the client IPs the keys of cache
Sessions == DOMAIN session_user
IPs == DOMAIN cache

\* ------------------------------------------------------------ the cache
NoEntry == [n |-> 0, ttl |-> 0]

\* cache.get(key, 0): an entry is gone once its timeout has run out
cache_get(c, ip) == IF c[ip].ttl > 0 THEN c[ip].n ELSE 0

\* cache.set(key, value, timeout): every write restarts the timeout
cache_set(c, ip, value, timeout) == [c EXCEPT ![ip] = [n |-> value, ttl |-> timeout]]

\* cache.delete(key)
cache_delete(c, ip) == [c EXCEPT ![ip] = NoEntry]

\* LocMemCache drops an entry whose expiry time is <= now
cache_expire(c, d) ==
    [ip \in DOMAIN c |-> IF c[ip].ttl > d THEN [n |-> c[ip].n, ttl |-> c[ip].ttl - d]
                    ELSE NoEntry]

\* ------------------------------------------------------------ MFA state
\* TOTPDevice.objects.filter(user=u, confirmed=c)
DevicesOf(u, c) == {d \in devices : d.user = u /\ d.confirmed = c}

\* QuerySet.first(): the row with the lowest primary key, or None
NoDevice == [id |-> 0, user |-> None, confirmed |-> FALSE]

first(rows) ==
    IF rows = {} THEN NoDevice
    ELSE CHOOSE d \in rows : \A e \in rows : d.id <= e.id

\* django_otp.user_has_device(user): a confirmed device exists
user_has_device(u) == DevicesOf(u, TRUE) # {}

\* device.verify_token(token): a token is named by the device it is valid for
verify_token(device, token) == token = device.id

Tokens == (1..MaxDevices) \cup {0}

\* ------------------------------------------------------------ login
\* RateLimitMiddleware.__call__ for a POST to /accounts/login/
RateLimitMiddleware_NoCount(c, ip) ==
    LET attempts == cache_get(c, ip) IN
    [blocked |-> attempts >= RATE_LIMIT, cache |-> c]

RateLimitMiddleware(c, ip) ==
    LET attempts == cache_get(c, ip) IN
    IF attempts >= RATE_LIMIT
    THEN [blocked |-> TRUE, cache |-> c]
    ELSE [blocked |-> FALSE, cache |-> cache_set(c, ip, attempts + 1, CACHE_TIMEOUT)]

\* SecureLoginForm(request, data).is_valid(): the field validators, then
\* AuthenticationForm.clean, which itself authenticates and rejects the form
\* when the credentials are wrong
SecureLoginForm_is_valid(cred) == cred = "ok"

\* authenticate(username, password)
authenticate(u, cred) == IF cred = "ok" THEN u ELSE None

\* `if profile.mfa_enabled or user_has_device(user)` of login_view
requires_otp(user) == mfa_enabled[user] \/ user_has_device(user)

\* `if device and device.verify_token(otp_token)` of otp_verify_view
otp_accepted_DeviceOnly(device, token) == device # NoDevice

otp_accepted(device, token) == device # NoDevice /\ verify_token(device, token)

\* history: the run of login POSTs of a client IP that began with its counter
\* empty. A POST that finds the counter empty begins a new run unless the
\* run it follows is younger than CACHE_TIMEOUT; a cache.delete ends the run.
\* failed: the POST did not have its password accepted
NoRun == [n |-> 0, all_failed |-> TRUE, first_age |-> 0]

LifeAfter(ip, failed, cleared) ==
    LET run == IF cache[ip].ttl = 0 /\ (life[ip].n = 0 \/ life[ip].first_age >= CACHE_TIMEOUT)
               THEN NoRun ELSE life[ip] IN
    IF cleared THEN NoRun
    ELSE [n |-> IF run.n > RATE_LIMIT THEN run.n ELSE run.n + 1,
          all_failed |-> run.all_failed /\ failed,
          first_age |-> run.first_age]

RecentAfter(ip) ==
    LET r == Append(recent[ip], 0) IN
    IF Len(r) > RATE_LIMIT THEN Tail(r) ELSE r

\* the history is kept for the observed client IPs, the keys of life
Record(ip, failed, cleared) ==
    IF ip \in DOMAIN life
    THEN /\ life' = [life EXCEPT ![ip] = LifeAfter(ip, failed, cleared)]
         /\ recent' = [recent EXCEPT ![ip] = RecentAfter(ip)]
    ELSE UNCHANGED <<life, recent>>

\* login_view, POST branch, entered with the cache as the middleware left it
login_view(s, ip, u, cred, c) ==
    IF session_user[s] # None
    THEN /\ resp' = "redirect_post_list"
         /\ cache' = c
         /\ Record(ip, TRUE, FALSE)
         /\ UNCHANGED <<session_user, pre_otp_user_id, login_attempts, pwd_accepted>>
    ELSE
    LET attempts == cache_get(c, ip) IN
    IF attempts >= RATE_LIMIT
    THEN /\ resp' = "too_many_attempts"
         /\ cache' = c
         /\ Record(ip, TRUE, FALSE)
         /\ UNCHANGED <<session_user, pre_otp_user_id, login_attempts, pwd_accepted>>
    ELSE IF SecureLoginForm_is_valid(cred)
    THEN LET user == authenticate(u, cred) IN
         IF user # None
         THEN /\ Len(login_attempts) < MaxLoginAttempts
              /\ login_attempts' = Append(login_attempts, [username |-> u, success |-> TRUE])
              /\ pwd_accepted' = [pwd_accepted EXCEPT ![s] = @ \cup {user}]
              /\ Record(ip, FALSE, ~requires_otp(user))
              /\ IF requires_otp(user)
                 THEN /\ pre_otp_user_id' = [pre_otp_user_id EXCEPT ![s] = user]
                      /\ resp' = "redirect_otp_verify"
                      /\ cache' = c
                      /\ UNCHANGED session_user
                 ELSE /\ session_user' = [session_user EXCEPT ![s] = user]
                      /\ cache' = cache_delete(c, ip)
                      /\ resp' = "logged_in"
                      /\ UNCHANGED pre_otp_user_id
         ELSE /\ Len(login_attempts) < MaxLoginAttempts
              /\ login_attempts' = Append(login_attempts, [username |-> u, success |-> FALSE])
              /\ cache' = cache_set(c, ip, attempts + 1, CACHE_TIMEOUT)
              /\ resp' = "invalid_credentials"
              /\ Record(ip, TRUE, FALSE)
              /\ UNCHANGED <<session_user, pre_otp_user_id, pwd_accepted>>
    ELSE /\ resp' = "form_errors"
         /\ cache' = c
         /\ Record(ip, TRUE, FALSE)
         /\ UNCHANGED <<session_user, pre_otp_user_id, login_attempts, pwd_accepted>>

\* a POST to /accounts/login/: RateLimitMiddleware, then login_view
LoginPost(s, ip, u, cred) ==
    /\ LET mw == RateLimitMiddleware(cache, ip) IN
       IF mw.blocked
       THEN /\ resp' = "forbidden"
            /\ cache' = mw.cache
            /\ Record(ip, TRUE, FALSE)
            /\ UNCHANGED <<session_user, pre_otp_user_id, login_attempts, pwd_accepted>>
       ELSE login_view(s, ip, u, cred, mw.cache)
    /\ UNCHANGED <<mfa_enabled, devices, next_device_id, blogVars, sideVars>>

\* ------------------------------------------------------------ login, query by query
\* a login POST as the worker threads run it: the middleware's cache.get, its
\* cache.set and the view are steps of their own, and the steps of two
\* requests interleave
IdleLogin == [pc |-> "idle", session |-> None, ip |-> None, user |-> None,
              cred |-> "malformed", attempts |-> 0]

\* the answers of login_view that come after form.is_valid() was called
CredentialChecked == {"form_errors", "invalid_credentials", "redirect_otp_verify", "logged_in"}

\* RateLimitMiddleware.__call__: `attempts = cache.get(key, 0)` and the test
MiddlewareGet(t, s, ip, u, cred) ==
    /\ th[t].pc = "idle"
    /\ LET attempts == cache_get(cache, ip) IN
       IF attempts >= RATE_LIMIT
       THEN /\ resp' = "forbidden"
            /\ UNCHANGED th
       ELSE /\ resp' = "handling"
            /\ th' = [th EXCEPT ![t] = [pc |-> "set", session |-> s, ip |-> ip, user |-> u,
                                        cred |-> cred, attempts |-> attempts]]
    /\ UNCHANGED <<authVars, blogVars, stored, preview, moreVars>>

\* RateLimitMiddleware.__call__: `cache.set(key, attempts + 1, 300)`
MiddlewareSet(t) ==
    /\ th[t].pc = "set"
    /\ cache' = cache_set(cache, th[t].ip, th[t].attempts + 1, CACHE_TIMEOUT)
    /\ th' = [th EXCEPT ![t].pc = "view"]
    /\ resp' = "handling"
    /\ UNCHANGED <<session_user, pre_otp_user_id, mfa_enabled, devices, next_device_id,
                   login_attempts, pwd_accepted, life, recent, blogVars, stored, preview,
                   moreVars>>

\* self.get_response(request): login_view with the cache as it is by then
LoginViewStep(t) ==
    /\ th[t].pc = "view"
    /\ login_view(th[t].session, th[t].ip, th[t].user, th[t].cred, cache)
    /\ th' = [th EXCEPT ![t] = IdleLogin]
    /\ checked' = [checked EXCEPT ![th[t].ip] =
                      IF cache_get(cache', th[t].ip) = 0 THEN 0
                      ELSE IF resp' \in CredentialChecked THEN @ + 1
                      ELSE @]
    /\ UNCHANGED <<mfa_enabled, devices, next_device_id, blogVars, stored, preview,
                   comments, categories, uploads>>

\* ------------------------------------------------------------ OTP step
\* otp_verify_view; login() flushes a session that belongs to another user,
\* after which `del request.session['pre_otp_user_id']` raises KeyError: the
\* request ends in a 500 and the flushed session is never saved
otp_verify_view(s, method, token_ok_form, token) ==
    LET user_id == pre_otp_user_id[s] IN
    IF user_id = None
    THEN /\ resp' = "redirect_login"
         /\ UNCHANGED <<session_user, pre_otp_user_id, pwd_accepted>>
    ELSE IF method = "POST"
    THEN IF token_ok_form
         THEN LET device == first(DevicesOf(user_id, TRUE)) IN
              IF otp_accepted(device, token)
              THEN IF session_user[s] \notin {None, user_id}
                   THEN /\ session_user' = [session_user EXCEPT ![s] = None]
                        /\ pre_otp_user_id' = [pre_otp_user_id EXCEPT ![s] = None]
                        /\ pwd_accepted' = [pwd_accepted EXCEPT ![s] = {}]
                        /\ resp' = "server_error"
                   ELSE /\ session_user' = [session_user EXCEPT ![s] = user_id]
                        /\ pre_otp_user_id' = [pre_otp_user_id EXCEPT ![s] = None]
                        /\ resp' = "logged_in_mfa"
                        /\ UNCHANGED pwd_accepted
              ELSE /\ resp' = "invalid_otp"
                   /\ UNCHANGED <<session_user, pre_otp_user_id, pwd_accepted>>
         ELSE /\ resp' = "form_errors"
              /\ UNCHANGED <<session_user, pre_otp_user_id, pwd_accepted>>
    ELSE /\ resp' = "otp_form"
         /\ UNCHANGED <<session_user, pre_otp_user_id, pwd_accepted>>

OtpVerify(s, method, token_ok_form, token) ==
    /\ otp_verify_view(s, method, token_ok_form, token)
    /\ UNCHANGED <<cache, mfa_enabled, devices, next_device_id, login_attempts, life, recent,
                   blogVars, sideVars>>

\* ------------------------------------------------------------ logout
\* logout_view: @login_required, then logout() flushes the session
logout_view(s) ==
    IF session_user[s] = None
    THEN /\ resp' = "redirect_login"
         /\ UNCHANGED <<session_user, pre_otp_user_id, pwd_accepted>>
    ELSE /\ session_user' = [session_user EXCEPT ![s] = None]
         /\ pre_otp_user_id' = [pre_otp_user_id EXCEPT ![s] = None]
         /\ pwd_accepted' = [pwd_accepted EXCEPT ![s] = {}]
         /\ resp' = "logged_out"

Logout(s) ==
    /\ logout_view(s)
    /\ UNCHANGED <<cache, mfa_enabled, devices, next_device_id, login_attempts, life, recent,
                   blogVars, sideVars>>

\* ------------------------------------------------------------ MFA setup
\* mfa_setup_view, POST with one of enable_mfa, confirm_mfa, disable_mfa
\* mfa_setup_view whose disable_mfa leaves profile.mfa_enabled as it is
mfa_setup_view_FlagKept(s, op, token) ==
    LET user == session_user[s]
        device == first(DevicesOf(user, TRUE)) IN
    IF user = None
    THEN /\ resp' = "redirect_login"
         /\ UNCHANGED <<mfa_enabled, devices, next_device_id>>
    ELSE CASE op = "enable_mfa" ->
              IF device = NoDevice
              THEN /\ next_device_id <= MaxDevices
                   /\ devices' = devices \cup
                          {[id |-> next_device_id, user |-> user, confirmed |-> FALSE]}
                   /\ next_device_id' = next_device_id + 1
                   /\ resp' = "qr_code"
                   /\ UNCHANGED mfa_enabled
              ELSE /\ resp' = "qr_code"
                   /\ UNCHANGED <<mfa_enabled, devices, next_device_id>>
           [] op = "confirm_mfa" ->
              LET unconfirmed == first(DevicesOf(user, FALSE)) IN
              IF unconfirmed # NoDevice /\ verify_token(unconfirmed, token)
              THEN /\ devices' = (devices \ {unconfirmed}) \cup
                          {[unconfirmed EXCEPT !.confirmed = TRUE]}
                   /\ mfa_enabled' = [mfa_enabled EXCEPT ![user] = TRUE]
                   /\ resp' = "mfa_enabled"
                   /\ UNCHANGED next_device_id
              ELSE /\ resp' = "invalid_otp"
                   /\ UNCHANGED <<mfa_enabled, devices, next_device_id>>
           [] op = "disable_mfa" ->
              /\ devices' = {d \in devices : d.user # user}
              /\ UNCHANGED mfa_enabled
              /\ resp' = "mfa_disabled"
              /\ UNCHANGED next_device_id

\* mfa_setup_view
mfa_setup_view(s, op, token) ==
    LET user == session_user[s]
        device == first(DevicesOf(user, TRUE)) IN
    IF user = None
    THEN /\ resp' = "redirect_login"
         /\ UNCHANGED <<mfa_enabled, devices, next_device_id>>
    ELSE CASE op = "enable_mfa" ->
              IF device = NoDevice
              THEN /\ next_device_id <= MaxDevices
                   /\ devices' = devices \cup
                          {[id |-> next_device_id, user |-> user, confirmed |-> FALSE]}
                   /\ next_device_id' = next_device_id + 1
                   /\ resp' = "qr_code"
                   /\ UNCHANGED mfa_enabled
              ELSE /\ resp' = "qr_code"
                   /\ UNCHANGED <<mfa_enabled, devices, next_device_id>>
           [] op = "confirm_mfa" ->
              LET unconfirmed == first(DevicesOf(user, FALSE)) IN
              IF unconfirmed # NoDevice /\ verify_token(unconfirmed, token)
              THEN /\ devices' = (devices \ {unconfirmed}) \cup
                          {[unconfirmed EXCEPT !.confirmed = TRUE]}
                   /\ mfa_enabled' = [mfa_enabled EXCEPT ![user] = TRUE]
                   /\ resp' = "mfa_enabled"
                   /\ UNCHANGED next_device_id
              ELSE /\ resp' = "invalid_otp"
                   /\ UNCHANGED <<mfa_enabled, devices, next_device_id>>
           [] op = "disable_mfa" ->
              /\ devices' = {d \in devices : d.user # user}
              /\ mfa_enabled' = [mfa_enabled EXCEPT ![user] = FALSE]
              /\ resp' = "mfa_disabled"
              /\ UNCHANGED next_device_id

MfaSetup(s, op, token) ==
    /\ mfa_setup_view(s, op, token)
    /\ UNCHANGED <<session_user, pre_otp_user_id, cache, login_attempts,
                   pwd_accepted, life, recent, blogVars, sideVars>>

\* ------------------------------------------------------------ the clock
Min(a, b) == IF a < b THEN a ELSE b

RECURSIVE Aged(_, _)
Aged(ages, d) ==
    IF ages = <<>> THEN <<>>
    ELSE IF Head(ages) + d >= CACHE_TIMEOUT THEN Aged(Tail(ages), d)
    ELSE <<Head(ages) + d>> \o Aged(Tail(ages), d)

\* TickStep seconds pass
Tick ==
    /\ \/ \E ip \in IPs : cache[ip].ttl > 0
       \/ \E ip \in DOMAIN recent : recent[ip] # <<>>
    /\ cache' = cache_expire(cache, TickStep)
    /\ life' = [ip \in DOMAIN life |->
                  [life[ip] EXCEPT !.first_age = Min(@ + TickStep, CACHE_TIMEOUT)]]
    /\ recent' = [ip \in DOMAIN recent |-> Aged(recent[ip], TickStep)]
    /\ resp' = "tick"
    /\ UNCHANGED <<session_user, pre_otp_user_id, mfa_enabled, devices,
                   next_device_id, login_attempts, pwd_accepted, blogVars, sideVars>>

\* ------------------------------------------------------------ rich text
\* rich text is a sequence of nodes: an element with its attribute names, or
\* a piece of text
Text == [tag |-> "text", attrs |-> {}]
Elem(tag, attrs) == [tag |-> tag, attrs |-> attrs]

allowed_tags == {"p", "br", "strong", "em", "u", "h1", "h2", "h3", "ul", "ol", "li", "a", "img"}

allowed_attrs(tag) ==
    CASE tag = "a" -> {"href", "title"}
      [] tag = "img" -> {"src", "alt"}
      [] OTHER -> {}

\* bleach.clean(html, tags, attributes, strip=True): an element that is not
\* allowed is dropped (its text stays), an allowed one keeps its allowed
\* attributes
RECURSIVE sanitize_html(_)
sanitize_html(html) ==
    IF html = <<>> THEN <<>>
    ELSE LET node == Head(html) IN
         IF node.tag = "text" THEN <<node>> \o sanitize_html(Tail(html))
         ELSE IF node.tag \in allowed_tags
         THEN <<Elem(node.tag, node.attrs \cap allowed_attrs(node.tag))>>
                  \o sanitize_html(Tail(html))
         ELSE sanitize_html(Tail(html))

\* only allow-listed tags and attributes
IsClean(html) ==
    \A i \in 1..Len(html) :
        \/ html[i].tag = "text"
        \/ html[i].tag \in allowed_tags /\ html[i].attrs \subseteq allowed_attrs(html[i].tag)

\* ------------------------------------------------------------ the blog
\* User rows of the blog; root has is_staff
Staff == {"root"}
Members == Users \cup Staff

\* the content values the post form is submitted with
PlainContent == <<Elem("p", {}), Text>>
ScriptContent == <<Elem("script", {}), Text, Elem("a", {"href", "onclick"})>>
PostContents == {PlainContent, ScriptContent}

\* posts ever created, PostLike rows ever created, the last clock value
MaxPosts == 1
MaxLikes == 3
MaxClock == 2

NoPost == [author |-> None, status |-> "none", content |-> <<>>, published_at |-> 0, views |-> 0]

\* get_object_or_404(Post, slug=slug)
PostExists(p) == p \in DOMAIN posts /\ posts[p] # NoPost

\* Post.save: the content is sanitised, published_at is set when the post is
\* saved as published without one (0 stands for NULL)
Post_save_AlwaysStamp(post) ==
    LET sanitized == IF post.content # <<>> THEN sanitize_html(post.content)
                     ELSE post.content IN
    [post EXCEPT !.content = sanitized,
                 !.published_at = IF post.status = "published" THEN now ELSE @]

Post_save(post) ==
    LET sanitized == IF post.content # <<>> THEN sanitize_html(post.content)
                     ELSE post.content IN
    [post EXCEPT !.content = sanitized,
                 !.published_at = IF post.status = "published" /\ post.published_at = 0
                                  THEN now ELSE @]

\* post_create
post_create(u, method, valid, status, content) ==
    IF u = None
    THEN /\ resp' = "redirect_login"
         /\ UNCHANGED <<posts, next_post_id>>
    ELSE IF method = "POST" /\ valid
    THEN /\ next_post_id <= MaxPosts
         /\ posts' = [posts EXCEPT ![next_post_id] =
                Post_save([author |-> u, status |-> status, content |-> content,
                           published_at |-> 0, views |-> 0])]
         /\ next_post_id' = next_post_id + 1
         /\ resp' = "redirect_post_detail"
    ELSE /\ resp' = "post_form"
         /\ UNCHANGED <<posts, next_post_id>>

PostCreate(u, method, valid, status, content) ==
    /\ post_create(u, method, valid, status, content)
    /\ UNCHANGED <<likes, next_like_id, now, like_prev, authVars, sideVars>>

\* `post.author != request.user and not request.user.is_staff`
may_not_change_AuthorOnlyChecked(post, u) == post.author # u /\ u \in Staff

may_not_change(post, u) == post.author # u /\ u \notin Staff

\* post_edit
post_edit(u, p, method, valid, status, content) ==
    IF u = None
    THEN /\ resp' = "redirect_login"
         /\ UNCHANGED posts
    ELSE IF ~PostExists(p)
    THEN /\ resp' = "not_found"
         /\ UNCHANGED posts
    ELSE IF may_not_change(posts[p], u)
    THEN /\ resp' = "edit_forbidden"
         /\ UNCHANGED posts
    ELSE IF method = "POST" /\ valid
    THEN /\ posts' = [posts EXCEPT ![p] =
                Post_save([@ EXCEPT !.status = status, !.content = content])]
         /\ resp' = "redirect_post_detail"
    ELSE /\ resp' = "post_form"
         /\ UNCHANGED posts

PostEdit(u, p, method, valid, status, content) ==
    /\ post_edit(u, p, method, valid, status, content)
    /\ UNCHANGED <<next_post_id, likes, next_like_id, now, like_prev, authVars, sideVars>>

\* a Comment row by primary key; a key is used once
NoComment == [state |-> "none", post |-> 0, author |-> None]
DeletedComment == [state |-> "deleted", post |-> 0, author |-> None]
CommentExists(c) == c \in DOMAIN comments /\ comments[c].state = "stored"

\* post_delete; the PostLike rows of the post go with it (on_delete=CASCADE)
post_delete(u, p, method) ==
    IF u = None
    THEN /\ resp' = "redirect_login"
         /\ UNCHANGED <<posts, likes, comments>>
    ELSE IF ~PostExists(p)
    THEN /\ resp' = "not_found"
         /\ UNCHANGED <<posts, likes, comments>>
    ELSE IF may_not_change(posts[p], u)
    THEN /\ resp' = "delete_forbidden"
         /\ UNCHANGED <<posts, likes, comments>>
    ELSE IF method = "POST"
    THEN /\ posts' = [posts EXCEPT ![p] = NoPost]
         /\ likes' = {l \in likes : l.post # p}
         /\ comments' = [c \in DOMAIN comments |->
                            IF comments[c].state = "stored" /\ comments[c].post = p
                            THEN DeletedComment ELSE comments[c]]
         /\ resp' = "redirect_post_list"
    ELSE /\ resp' = "post_confirm_delete"
         /\ UNCHANGED <<posts, likes, comments>>

PostDelete(u, p, method) ==
    /\ post_delete(u, p, method)
    /\ UNCHANGED <<next_post_id, next_like_id, now, like_prev, authVars,
                   stored, th, preview, categories, checked, uploads>>

\* ---- comments and categories ----
MaxComments == 2
MaxCategories == 1
MaxViews == 2

FreeKeys(rows) == {k \in DOMAIN rows : rows[k].state = "none"}
NextKey(rows) == CHOOSE k \in FreeKeys(rows) : \A j \in FreeKeys(rows) : k <= j

\* post_detail run as one request: the view counter, then the comment form
post_detail(u, p, method, valid) ==
    IF ~(PostExists(p) /\ posts[p].status = "published")
    THEN /\ resp' = "not_found"
         /\ UNCHANGED <<posts, comments>>
    ELSE /\ posts' = [posts EXCEPT ![p].views = @ + 1]
         /\ IF method = "POST" /\ u # None /\ valid
            THEN /\ comments' = [comments EXCEPT ![NextKey(comments)] =
                                     [state |-> "stored", post |-> p, author |-> u]]
                 /\ resp' = "redirect_post_detail"
            ELSE /\ resp' = "post_detail"
                 /\ UNCHANGED comments

PostDetail(u, p, method, valid) ==
    /\ (method = "POST" /\ u # None /\ valid) => FreeKeys(comments) # {}
    /\ PostExists(p) => posts[p].views < MaxViews
    /\ post_detail(u, p, method, valid)
    /\ UNCHANGED <<next_post_id, likes, next_like_id, now, like_prev, authVars,
                   stored, th, preview, categories, checked, uploads>>

\* comment_delete: the request method is never read
comment_delete(u, c, method) ==
    IF u = None
    THEN /\ resp' = "redirect_login"
         /\ UNCHANGED comments
    ELSE IF ~CommentExists(c)
    THEN /\ resp' = "not_found"
         /\ UNCHANGED comments
    ELSE IF may_not_change(comments[c], u)
    THEN /\ resp' = "comment_delete_forbidden"
         /\ UNCHANGED comments
    ELSE /\ comments' = [comments EXCEPT ![c] = DeletedComment]
         /\ resp' = "redirect_post_detail"

CommentDelete(u, c, method) ==
    /\ comment_delete(u, c, method)
    /\ UNCHANGED <<blogVars, authVars, stored, th, preview, categories, checked, uploads>>

NoCategory == [state |-> "none"]
CategoryExists(k) == k \in DOMAIN categories /\ categories[k].state = "stored"

category_create(u, method, valid) ==
    IF u = None
    THEN /\ resp' = "redirect_login"
         /\ UNCHANGED categories
    ELSE IF method = "POST" /\ valid
    THEN /\ categories' = [categories EXCEPT ![NextKey(categories)] = [state |-> "stored"]]
         /\ resp' = "redirect_category_list"
    ELSE /\ resp' = "category_form"
         /\ UNCHANGED categories

CategoryCreate(u, method, valid) ==
    /\ FreeKeys(categories) # {}
    /\ category_create(u, method, valid)
    /\ UNCHANGED <<blogVars, authVars, stored, th, preview, comments, checked, uploads>>

category_delete(u, k, method) ==
    IF u = None
    THEN /\ resp' = "redirect_login"
         /\ UNCHANGED categories
    ELSE IF ~CategoryExists(k)
    THEN /\ resp' = "not_found"
         /\ UNCHANGED categories
    ELSE IF u \notin Staff
    THEN /\ resp' = "category_delete_forbidden"
         /\ UNCHANGED categories
    ELSE IF method = "POST"
    THEN /\ categories' = [categories EXCEPT ![k] = [state |-> "deleted"]]
         /\ resp' = "redirect_category_list"
    ELSE /\ resp' = "category_confirm_delete"
         /\ UNCHANGED categories

CategoryDelete(u, k, method) ==
    /\ category_delete(u, k, method)
    /\ UNCHANGED <<blogVars, authVars, stored, th, preview, comments, checked, uploads>>

\* ---- ckeditor_upload ----
MAX_UPLOAD_SIZE == 10485760
MaxUploads == 2

allowed_extensions == {".jpg", ".jpeg", ".png", ".gif", ".webp"}

\* a file name is its parts: <<"shell", ".php", ".png">> is shell.php.png,
\* <<"", ".gif">> is the hidden file .gif
FileNames ==
    { <<"photo", ".jpg">>, <<"photo", ".JPG">>, <<"scan", ".jpeg">>, <<"logo", ".png">>,
      <<"anim", ".gif">>, <<"pic", ".webp">>, <<"shell", ".php", ".png">>,
      <<"doc", ".svg">>, <<"noext">>, <<"", ".gif">> }
FileSizes == {0, 1024, MAX_UPLOAD_SIZE, MAX_UPLOAD_SIZE + 1}

\* os.path.splitext(name)[1]: the last suffix, none for a leading dot
splitext(name) == IF Len(name) > 1 /\ name[1] # "" THEN name[Len(name)] ELSE ""
\* str.lower
lower(ext) == CASE ext = ".JPG" -> ".jpg" [] OTHER -> ext

\* request.FILES.get('upload'): no file, a file, or a body that cannot be parsed
NoFile == [kind |-> "none", name |-> <<>>, size |-> 0, image |-> FALSE]
UnreadableBody == [kind |-> "unreadable", name |-> <<>>, size |-> 0, image |-> FALSE]
\* image: Image.open(f).verify() raises nothing; an empty file never verifies
UploadedFiles ==
    {f \in [kind : {"file"}, name : FileNames, size : FileSizes, image : BOOLEAN] :
        f.size = 0 => ~f.image}

\* what default_storage does with an accepted file: save() raises, save()
\* succeeds and url() or build_absolute_uri() raises, or nothing raises
StorageOutcomes == {"ok", "save_raises", "url_raises"}

too_large_Never(size) == FALSE

too_large(size) == size > MAX_UPLOAD_SIZE

\* CsrfViewMiddleware.process_view: the view is not csrf_exempt
csrf_rejected(method, csrf) == method = "POST" /\ ~csrf

ckeditor_upload(u, method, up, io) ==
    IF u = None
    THEN /\ resp' = "redirect_login"
         /\ UNCHANGED uploads
    ELSE IF method # "POST"
    THEN /\ resp' = "method_not_allowed"
         /\ UNCHANGED uploads
    ELSE IF up.kind = "unreadable"
    THEN /\ resp' = "json_error_500"
         /\ UNCHANGED uploads
    ELSE IF up.kind = "none"
    THEN /\ resp' = "json_error_400"
         /\ UNCHANGED uploads
    ELSE IF too_large(up.size)
    THEN /\ resp' = "json_error_400"
         /\ UNCHANGED uploads
    ELSE IF lower(splitext(up.name)) \notin allowed_extensions
    THEN /\ resp' = "json_error_400"
         /\ UNCHANGED uploads
    ELSE IF ~up.image
    THEN /\ resp' = "json_error_400"
         /\ UNCHANGED uploads
    ELSE IF io = "save_raises"
    THEN /\ resp' = "json_error_500"
         /\ UNCHANGED uploads
    ELSE /\ uploads' = uploads \cup {[id |-> Cardinality(uploads) + 1,
                                       ext |-> lower(splitext(up.name))]}
         /\ resp' = IF io = "url_raises" THEN "json_error_500" ELSE "json_uploaded"

CkeditorUpload(u, method, csrf, up, io) ==
    /\ up.kind = "file" => Cardinality(uploads) < MaxUploads
    /\ IF csrf_rejected(method, csrf)
       THEN /\ resp' = "csrf_forbidden"
            /\ UNCHANGED uploads
       ELSE ckeditor_upload(u, method, up, io)
    /\ UNCHANGED <<blogVars, authVars, stored, th, preview, comments, categories, checked>>

\* PostLike.objects.filter(post=p, user=u)
LikesOf(rows, p, u) == {l \in rows : l.post = p /\ l.user = u}

\* like.delete()
like_delete_Kept(rows, like) == rows

like_delete(rows, like) == {l \in rows : l.id # like.id}

\* post_like, one request handled alone: get_or_create, then the like is
\* deleted when it was there already
post_like(u, p, method) ==
    IF u = None
    THEN /\ resp' = "redirect_login"
         /\ UNCHANGED <<likes, next_like_id, like_prev>>
    ELSE IF method # "POST"
    THEN /\ resp' = "method_not_allowed"
         /\ UNCHANGED <<likes, next_like_id, like_prev>>
    ELSE IF ~(PostExists(p) /\ posts[p].status = "published")
    THEN /\ resp' = "not_found"
         /\ UNCHANGED <<likes, next_like_id, like_prev>>
    ELSE LET found == LikesOf(likes, p, u)
             before == Cardinality(found) IN
         IF found = {}
         THEN /\ next_like_id <= MaxLikes
              /\ likes' = likes \cup {[id |-> next_like_id, post |-> p, user |-> u]}
              /\ next_like_id' = next_like_id + 1
              /\ resp' = "liked"
              /\ like_prev' = [like_prev EXCEPT ![<<u, p>>] = [before |-> before, liked |-> TRUE]]
         ELSE /\ likes' = like_delete(likes, CHOOSE l \in found : TRUE)
              /\ resp' = "unliked"
              /\ like_prev' = [like_prev EXCEPT ![<<u, p>>] = [before |-> before, liked |-> FALSE]]
              /\ UNCHANGED next_like_id

PostLikeRequest(u, p, method) ==
    /\ post_like(u, p, method)
    /\ UNCHANGED <<posts, next_post_id, now, authVars, sideVars>>

\* time passes
BlogTick ==
    /\ now < MaxClock
    /\ now' = now + 1
    /\ resp' = "tick"
    /\ UNCHANGED <<posts, next_post_id, likes, next_like_id, like_prev, authVars, sideVars>>

\* ------------------------------------------------------------ post_like, query by query
\* post_like as the worker threads run it: each database query is a step of
\* its own, and the queries of two requests interleave
IdleThread == [pc |-> "idle", user |-> None, post |-> 0, like |-> 0]
Threads == DOMAIN th

\* unique_together = ("post", "user"): the INSERT fails with IntegrityError
\* when the pair has a row
unique_violation_Unchecked(rows, p, u) == FALSE

unique_violation(rows, p, u) == LikesOf(rows, p, u) # {}

\* @login_required, @require_POST and get_object_or_404 of post_like
LikeBegin(t, u, p) ==
    /\ th[t].pc = "idle"
    /\ IF PostExists(p) /\ posts[p].status = "published"
       THEN /\ th' = [th EXCEPT ![t] = [pc |-> "get", user |-> u, post |-> p, like |-> 0]]
            /\ resp' = "handling"
       ELSE /\ resp' = "not_found"
            /\ UNCHANGED th
    /\ UNCHANGED <<authVars, blogVars, stored, preview, moreVars>>

\* get_or_create: the SELECT
LikeGet(t) ==
    /\ th[t].pc = "get"
    /\ LET found == LikesOf(likes, th[t].post, th[t].user) IN
       IF found = {}
       THEN /\ th' = [th EXCEPT ![t].pc = "create"]
            /\ resp' = "handling"
       ELSE IF Cardinality(found) = 1
       THEN /\ th' = [th EXCEPT ![t].pc = "delete",
                                 ![t].like = (CHOOSE l \in found : TRUE).id]
            /\ resp' = "handling"
       ELSE /\ th' = [th EXCEPT ![t] = IdleThread]
            /\ resp' = "server_error"
    /\ UNCHANGED <<authVars, blogVars, stored, preview, moreVars>>

\* get_or_create: the INSERT; created, the request answers liked=true
LikeCreate(t) ==
    /\ th[t].pc = "create"
    /\ IF unique_violation(likes, th[t].post, th[t].user)
       THEN /\ th' = [th EXCEPT ![t].pc = "get_again"]
            /\ resp' = "handling"
            /\ UNCHANGED <<likes, next_like_id>>
       ELSE /\ next_like_id <= MaxLikes
            /\ likes' = likes \cup
                   {[id |-> next_like_id, post |-> th[t].post, user |-> th[t].user]}
            /\ next_like_id' = next_like_id + 1
            /\ th' = [th EXCEPT ![t] = IdleThread]
            /\ resp' = "liked"
    /\ UNCHANGED <<authVars, posts, next_post_id, now, like_prev, stored, preview, moreVars>>

\* get_or_create: the SELECT after IntegrityError; the error is raised again
\* when the row is gone
LikeGetAgain(t) ==
    /\ th[t].pc = "get_again"
    /\ LET found == LikesOf(likes, th[t].post, th[t].user) IN
       IF found = {}
       THEN /\ th' = [th EXCEPT ![t] = IdleThread]
            /\ resp' = "server_error"
       ELSE /\ th' = [th EXCEPT ![t].pc = "delete",
                                 ![t].like = (CHOOSE l \in found : \A m \in found : l.id <= m.id).id]
            /\ resp' = "handling"
    /\ UNCHANGED <<authVars, blogVars, stored, preview, moreVars>>

\* like.delete(): DELETE by primary key; the request answers liked=false
LikeDelete(t) ==
    /\ th[t].pc = "delete"
    /\ likes' = like_delete(likes, [id |-> th[t].like])
    /\ th' = [th EXCEPT ![t] = IdleThread]
    /\ resp' = "unliked"
    /\ UNCHANGED <<authVars, posts, next_post_id, next_like_id, now, like_prev, stored, preview, moreVars>>

\* ------------------------------------------------------------ post_detail, query by query
\* post_detail as the worker threads run it: get_object_or_404 reads the row,
\* `post.views += 1` counts on the copy in memory, and
\* post.save(update_fields=['views']) writes that number
\* done: history, the post_detail requests the thread has answered
MaxDetailRequests == 2
IdleReader == [pc |-> "idle", post |-> 0, views |-> 0, done |-> 0]

\* get_object_or_404(Post, slug=slug, status='published') and post.views += 1
DetailGet(t, p) ==
    /\ th[t].pc = "idle"
    /\ th[t].done < MaxDetailRequests
    /\ IF PostExists(p) /\ posts[p].status = "published"
       THEN /\ th' = [th EXCEPT ![t].pc = "save", ![t].post = p,
                                 ![t].views = posts[p].views + 1]
            /\ resp' = "handling"
       ELSE /\ resp' = "not_found"
            /\ UNCHANGED th
    /\ UNCHANGED <<authVars, blogVars, stored, preview, moreVars>>

\* post.save(update_fields=['views']) and the rendering of the page
DetailSave(t) ==
    /\ th[t].pc = "save"
    /\ posts' = [posts EXCEPT ![th[t].post].views = th[t].views]
    /\ th' = [th EXCEPT ![t].pc = "idle", ![t].done = @ + 1]
    /\ resp' = "post_detail"
    /\ UNCHANGED <<authVars, next_post_id, likes, next_like_id, now, like_prev,
                   stored, preview, moreVars>>

RECURSIVE SumOver(_, _)
SumOver(f, keys) ==
    IF keys = {} THEN 0
    ELSE LET k == CHOOSE k \in keys : TRUE IN f[k] + SumOver(f, keys \ {k})

\* ------------------------------------------------------------ link preview
\* strings are sequences of pieces; PyNone is Python's None
PyNone == <<"None">>
EmptyStr == <<>>
SiteUrl == <<"http://", "site", "/post">>
NoSchemeUrl == <<"site", "/post">>
RelativeImage == <<"/img.png">>
AbsoluteImage == <<"https://", "cdn", "/img.png">>
SomeText == <<"text">>

\* request.POST.get('url', ''): the text and whether blanks surround it
UrlParams == {[text |-> EmptyStr, blanks |-> FALSE], [text |-> EmptyStr, blanks |-> TRUE],
              [text |-> SiteUrl, blanks |-> TRUE], [text |-> NoSchemeUrl, blanks |-> FALSE]}
strip(param) == param.text

\* Python truthiness of a str or None
falsy(x) == x = PyNone \/ x = EmptyStr

startswith_http(x) == Len(x) > 0 /\ x[1] \in {"http://", "https://"}

\* urllib.parse.urljoin for a reference that is absolute or an absolute path
urljoin(base, ref) ==
    IF startswith_http(ref) THEN ref
    ELSE IF startswith_http(base) THEN <<base[1], base[2]>> \o ref
    ELSE ref

\* the tags fetch_link_preview looks for; Absent: soup.find returns None
Absent == <<"absent">>
TextTags == {"og:title", "og:description", "og:video", "twitter:title",
             "twitter:description", "title", "description"}
ImageTags == {"og:image", "twitter:image"}
Tags == TextTags \cup ImageTags
ContentsOf(tag) ==
    IF tag \in ImageTags THEN {Absent, EmptyStr, RelativeImage, AbsoluteImage}
    ELSE {Absent, EmptyStr, SomeText}
MaxTagsPresent == 2
EmptyPage == [t \in Tags |-> Absent]
PagesWith(present) ==
    {[t \in Tags |-> IF t \in present THEN c[t] ELSE Absent] :
        c \in [present -> {EmptyStr, SomeText, RelativeImage, AbsoluteImage}]}
Pages ==
    {pg \in UNION {PagesWith(present) :
                     present \in {ts \in SUBSET Tags : Cardinality(ts) <= MaxTagsPresent}} :
        \A t \in Tags : pg[t] \in ContentsOf(t)}

\* what requests.get and raise_for_status can do with a URL
NetOutcomes(url) ==
    IF startswith_http(url)
    THEN {"timeout", "connection_error", "http_error", "unexpected_exception", "page"}
    ELSE {"missing_schema"}

\* tag.get('content', ''); the <title> tag gives title_tag.string
tag_content(page, tag) == page[tag]

\* the body of the try block: the exception it ends with, or the metadata
extract_metadata(url, net, page) ==
    IF net = "timeout" THEN [kind |-> "Timeout"]
    ELSE IF net \in {"connection_error", "http_error", "missing_schema"}
    THEN [kind |-> "RequestException"]
    ELSE IF net = "unexpected_exception" THEN [kind |-> "Exception"]
    ELSE
    LET og_title == IF page["og:title"] # Absent THEN tag_content(page, "og:title") ELSE PyNone
        og_desc  == IF page["og:description"] # Absent
                    THEN tag_content(page, "og:description") ELSE PyNone
        og_image == IF page["og:image"] # Absent THEN tag_content(page, "og:image") ELSE PyNone
        og_video == IF page["og:video"] # Absent THEN tag_content(page, "og:video") ELSE PyNone
        tw_title == IF falsy(og_title) /\ page["twitter:title"] # Absent
                    THEN tag_content(page, "twitter:title") ELSE og_title
        tw_desc  == IF falsy(og_desc) /\ page["twitter:description"] # Absent
                    THEN tag_content(page, "twitter:description") ELSE og_desc
        tw_image == IF falsy(og_image) /\ page["twitter:image"] # Absent
                    THEN tag_content(page, "twitter:image") ELSE og_image
        title    == IF falsy(tw_title) /\ page["title"] # Absent
                    THEN (IF page["title"] = EmptyStr THEN PyNone ELSE tag_content(page, "title"))
                    ELSE tw_title
        desc     == IF falsy(tw_desc) /\ page["description"] # Absent
                    THEN tag_content(page, "description") ELSE tw_desc
        image    == IF ~falsy(tw_image) /\ ~startswith_http(tw_image)
                    THEN urljoin(url, tw_image) ELSE tw_image
    IN [kind |-> "metadata",
        data |-> [title |-> title, description |-> desc, image |-> image,
                  video |-> og_video, url |-> url]]

\* fetch_link_preview without its last handler
fetch_link_preview_NoCatchAll(url, net, page) ==
    LET outcome == extract_metadata(url, net, page) IN
    IF outcome.kind \in {"Timeout", "RequestException"} THEN [kind |-> "none"]
    ELSE IF outcome.kind = "Exception" THEN [kind |-> "raised"]
    ELSE outcome

\* fetch_link_preview: the three except clauses return None
fetch_link_preview(url, net, page) ==
    LET outcome == extract_metadata(url, net, page) IN
    IF outcome.kind = "Timeout" THEN [kind |-> "none"]
    ELSE IF outcome.kind = "RequestException" THEN [kind |-> "none"]
    ELSE IF outcome.kind = "Exception" THEN [kind |-> "none"]
    ELSE outcome

\* fetch_link_preview_api with @login_required and @require_POST; an
\* exception that leaves the view is Django's 500 response
fetch_link_preview_api(u, method, param, net, page) ==
    LET url == strip(param)
        request == [url |-> param, net |-> net, page |-> page] IN
    IF u = None
    THEN /\ resp' = "redirect_login"
         /\ preview' = [request |-> request, result |-> [kind |-> "not_called"],
                        status |-> 302, body |-> [redirect |-> "login"]]
    ELSE IF method # "POST"
    THEN /\ resp' = "method_not_allowed"
         /\ preview' = [request |-> request, result |-> [kind |-> "not_called"],
                        status |-> 405, body |-> [allow |-> "POST"]]
    ELSE IF url = EmptyStr
    THEN /\ resp' = "json"
         /\ preview' = [request |-> request, result |-> [kind |-> "not_called"],
                        status |-> 400,
                        body |-> [success |-> FALSE, error |-> "URL is required"]]
    ELSE LET metadata == fetch_link_preview(url, net, page) IN
         IF metadata.kind = "raised"
         THEN /\ resp' = "server_error"
              /\ preview' = [request |-> request, result |-> metadata,
                             status |-> 500, body |-> [html |-> "Server Error (500)"]]
         ELSE IF metadata.kind = "metadata"
         THEN /\ resp' = "json"
              /\ preview' = [request |-> request, result |-> metadata,
                             status |-> 200,
                             body |-> [success |-> TRUE, data |-> metadata.data]]
         ELSE /\ resp' = "json"
              /\ preview' = [request |-> request, result |-> metadata,
                             status |-> 400,
                             body |-> [success |-> FALSE,
                                       error |-> "Could not fetch link preview"]]

FetchLinkPreviewApi(u, method, param, net, page) ==
    /\ fetch_link_preview_api(u, method, param, net, page)
    /\ UNCHANGED <<authVars, blogVars, stored, th, moreVars>>

\* ------------------------------------------------------------ healthcenter
\* the values a rich-text (CKEditor) field is submitted with
ImageContent == <<Elem("img", {"src", "onerror"})>>
RichTextInputs == PostContents \cup {ImageContent}

\* Service.save, Announcement.save, Activity.save fill in the slug and store
\* the row; About and TeamMember have no save of their own. What each stores
\* in its rich-text field:
Service_save(description) == description
Announcement_save(content) == content
Activity_save(description) == description
TeamMember_save(bio) == bio
About_save(description) == description

\* ServiceCreateView / ServiceUpdateView with a valid ServiceForm
ServiceSave(u, html) ==
    /\ u # None
    /\ stored' = [stored EXCEPT !["Service.description"] = Service_save(html)]
    /\ resp' = "redirect_service_list"
    /\ UNCHANGED <<authVars, blogVars, th, preview, moreVars>>

\* AnnouncementCreateView / AnnouncementUpdateView with a valid AnnouncementForm
AnnouncementSave(u, html) ==
    /\ u # None
    /\ stored' = [stored EXCEPT !["Announcement.content"] = Announcement_save(html)]
    /\ resp' = "redirect_announcement_list"
    /\ UNCHANGED <<authVars, blogVars, th, preview, moreVars>>

\* TeamMemberCreateView / TeamMemberUpdateView with a valid TeamMemberForm
TeamMemberSave(u, html) ==
    /\ u # None
    /\ stored' = [stored EXCEPT !["TeamMember.bio"] = TeamMember_save(html)]
    /\ resp' = "redirect_team_list"
    /\ UNCHANGED <<authVars, blogVars, th, preview, moreVars>>

\* ActivityCreateView / ActivityUpdateView with a valid ActivityForm
ActivitySave(u, html) ==
    /\ u # None
    /\ stored' = [stored EXCEPT !["Activity.description"] = Activity_save(html)]
    /\ resp' = "redirect_activity_list"
    /\ UNCHANGED <<authVars, blogVars, th, preview, moreVars>>

\* AboutAdmin: the admin site saves the About row for a staff user
AboutSave(u, html) ==
    /\ u \in Staff
    /\ stored' = [stored EXCEPT !["About.description"] = About_save(html)]
    /\ resp' = "admin_saved"
    /\ UNCHANGED <<authVars, blogVars, th, preview, moreVars>>

\* ------------------------------------------------------------ the system
\* the accounts tables as the flows below start from them: alice without MFA,
\* bob with a confirmed device
InitAccounts ==
    /\ mfa_enabled = [u \in Users |-> u = "bob"]
    /\ devices = {[id |-> 1, user |-> "bob", confirmed |-> TRUE]}
    /\ next_device_id = 2
    /\ login_attempts = <<>>
    /\ resp = "none"

NoRequest == [before |-> -1, liked |-> FALSE]

InitBlog ==
    /\ posts = [p \in 1..MaxPosts |-> NoPost]
    /\ next_post_id = 1
    /\ likes = {}
    /\ next_like_id = 1
    /\ now = 1
    /\ like_prev = [pair \in Members \X (1..MaxPosts) |-> NoRequest]

RichTextFields == {"Service.description", "Announcement.content", "TeamMember.bio",
                   "Activity.description", "About.description"}

\* no link preview was asked for yet
IdlePreview == [request |-> [url |-> [text |-> EmptyStr, blanks |-> FALSE],
                             net |-> "none", page |-> EmptyPage],
                result |-> [kind |-> "not_called"], status |-> 0, body |-> [none |-> TRUE]]

\* no Comment and no Category row, no credential check counted
InitMore == comments = <<>> /\ categories = <<>> /\ checked = <<>> /\ uploads = {}

InitStored == stored = <<>> /\ th = <<>> /\ preview = IdlePreview /\ InitMore

InitClients(sessions, ips, observed) ==
    /\ session_user = [s \in sessions |-> None]
    /\ pre_otp_user_id = [s \in sessions |-> None]
    /\ pwd_accepted = [s \in sessions |-> {}]
    /\ cache = [ip \in ips |-> NoEntry]
    /\ life = [ip \in observed |-> NoRun]
    /\ recent = [ip \in observed |-> <<>>]

LoginRequests == \E s \in Sessions, ip \in IPs, u \in Users, cred \in Creds : LoginPost(s, ip, u, cred)
OtpRequests == \E s \in Sessions, m \in {"GET", "POST"}, f \in BOOLEAN, t \in Tokens : OtpVerify(s, m, f, t)
LogoutRequests == \E s \in Sessions : Logout(s)
MfaSetupRequests ==
    \E s \in Sessions, op \in {"enable_mfa", "confirm_mfa", "disable_mfa"}, t \in Tokens :
        MfaSetup(s, op, t)

\* the rate limiter: one browser session, two client IPs, the login POSTs of
\* ip1 observed
Init == InitAccounts /\ InitClients({"s1"}, {"ip1", "ip2"}, {"ip1"}) /\ InitBlog /\ InitStored

Next ==
    \/ LoginRequests
    \/ OtpRequests
    \/ LogoutRequests
    \/ Tick

Spec == Init /\ [][Next]_vars

\* the MFA flow: two browser sessions behind one client IP
InitMfa == InitAccounts /\ InitClients({"s1", "s2"}, {"ip1"}, {}) /\ InitBlog /\ InitStored

NextMfa ==
    \/ LoginRequests
    \/ OtpRequests
    \/ LogoutRequests
    \/ MfaSetupRequests
    \/ Tick

SpecMfa == InitMfa /\ [][NextMfa]_vars

\* the blog views, each request handled alone
InitBlogOnly == InitAccounts /\ InitClients({}, {}, {}) /\ InitBlog /\ InitStored

Methods == {"GET", "POST"}
Requesters == Members \cup {None}

\* the form data of a request: a GET carries none, and an invalid form has no
\* cleaned fields
FormData(m) ==
    IF m = "POST"
    THEN {[valid |-> TRUE, status |-> st, content |-> c] :
             st \in {"draft", "published"}, c \in PostContents}
         \cup {[valid |-> FALSE, status |-> "draft", content |-> <<>>]}
    ELSE {[valid |-> FALSE, status |-> "draft", content |-> <<>>]}

PostCreateRequests ==
    \E u \in Requesters, m \in Methods : \E form \in FormData(m) :
        PostCreate(u, m, form.valid, form.status, form.content)
PostEditRequests ==
    \E u \in Requesters, p \in 1..MaxPosts, m \in Methods : \E form \in FormData(m) :
        PostEdit(u, p, m, form.valid, form.status, form.content)
PostDeleteRequests == \E u \in Requesters, p \in 1..MaxPosts, m \in Methods : PostDelete(u, p, m)
PostLikeRequests == \E u \in Requesters, p \in 1..MaxPosts, m \in Methods : PostLikeRequest(u, p, m)

NextBlog ==
    \/ PostCreateRequests
    \/ PostEditRequests
    \/ PostDeleteRequests
    \/ BlogTick

SpecBlog == InitBlogOnly /\ [][NextBlog]_vars

\* rich text on its way into the database: the post form and the
\* healthcenter forms
InitHtml ==
    /\ InitAccounts /\ InitClients({}, {}, {}) /\ InitBlog
    /\ stored = [f \in RichTextFields |-> <<>>]
    /\ th = <<>>
    /\ preview = IdlePreview
    /\ InitMore

NextHtml ==
    \/ PostCreateRequests
    \/ \E u \in Requesters, html \in RichTextInputs : ServiceSave(u, html)
    \/ \E u \in Requesters, html \in RichTextInputs : AnnouncementSave(u, html)
    \/ \E u \in Requesters, html \in RichTextInputs : TeamMemberSave(u, html)
    \/ \E u \in Requesters, html \in RichTextInputs : ActivitySave(u, html)
    \/ \E u \in Requesters, html \in RichTextInputs : AboutSave(u, html)

SpecHtml == InitHtml /\ [][NextHtml]_vars

\* the like button, each request handled alone: alice has a published post
\* and a draft
InitLikes ==
    /\ InitAccounts /\ InitClients({}, {}, {}) /\ InitStored
    /\ posts = [p \in 1..MaxPosts |->
                  IF p = 1
                  THEN [author |-> "alice", status |-> "published", content |-> PlainContent,
                        published_at |-> 1, views |-> 0]
                  ELSE [author |-> "alice", status |-> "draft", content |-> PlainContent,
                        published_at |-> 0, views |-> 0]]
    /\ next_post_id = MaxPosts + 1
    /\ likes = {}
    /\ next_like_id = 1
    /\ now = 1
    /\ like_prev = [pair \in Members \X (1..MaxPosts) |-> NoRequest]

NextLikes ==
    \/ PostLikeRequests
    \/ PostDeleteRequests

SpecLikes == InitLikes /\ [][NextLikes]_vars

\* the like button with two worker threads
InitLikeRace ==
    /\ InitAccounts /\ InitClients({}, {}, {})
    /\ stored = <<>> /\ preview = IdlePreview /\ InitMore
    /\ th = [t \in {"t1", "t2"} |-> IdleThread]
    /\ posts = [p \in 1..MaxPosts |->
                  [author |-> "alice", status |-> "published", content |-> PlainContent,
                   published_at |-> 1, views |-> 0]]
    /\ next_post_id = MaxPosts + 1
    /\ likes = {}
    /\ next_like_id = 1
    /\ now = 1
    /\ like_prev = [pair \in Members \X (1..MaxPosts) |-> NoRequest]

NextLikeRace ==
    \/ \E t \in Threads, u \in Members, p \in 1..MaxPosts : LikeBegin(t, u, p)
    \/ \E t \in Threads : LikeGet(t)
    \/ \E t \in Threads : LikeCreate(t)
    \/ \E t \in Threads : LikeGetAgain(t)
    \/ \E t \in Threads : LikeDelete(t)

SpecLikeRace == InitLikeRace /\ [][NextLikeRace]_vars

\* login POSTs of one client with two worker threads
InitLoginRace ==
    /\ InitAccounts /\ InitClients({"s1"}, {"ip1"}, {}) /\ InitBlog
    /\ stored = <<>> /\ preview = IdlePreview
    /\ comments = <<>> /\ categories = <<>>
    /\ checked = [ip \in {"ip1"} |-> 0]
    /\ uploads = {}
    /\ th = [t \in {"t1", "t2"} |-> IdleLogin]

NextLoginRace ==
    \/ \E t \in Threads, s \in Sessions, ip \in IPs, u \in Users, cred \in Creds :
          MiddlewareGet(t, s, ip, u, cred)
    \/ \E t \in Threads : MiddlewareSet(t)
    \/ \E t \in Threads : LoginViewStep(t)

SpecLoginRace == InitLoginRace /\ [][NextLoginRace]_vars

\* the MFA setup page, for two users who are logged in and have no device
InitMfaSetup ==
    /\ mfa_enabled = [u \in Users |-> FALSE]
    /\ devices = {}
    /\ next_device_id = 1
    /\ login_attempts = <<>>
    /\ resp = "none"
    /\ session_user = [s \in {"s1", "s2"} |-> IF s = "s1" THEN "alice" ELSE "bob"]
    /\ pre_otp_user_id = [s \in {"s1", "s2"} |-> None]
    /\ pwd_accepted = [s \in {"s1", "s2"} |-> {session_user[s]}]
    /\ cache = [ip \in {"ip1"} |-> NoEntry]
    /\ life = <<>> /\ recent = <<>>
    /\ InitBlog /\ InitStored

NextMfaSetup ==
    \/ MfaSetupRequests
    \/ LogoutRequests

SpecMfaSetup == InitMfaSetup /\ [][NextMfaSetup]_vars

\* two post_like requests of one user on one published post, both past
\* get_object_or_404, with up to two PostLike rows stored before them;
\* like_prev holds the rows the pair had then
Rank(u) == CASE u = "alice" -> 1 [] u = "bob" -> 2 [] OTHER -> 3

LikeRows(users, p) ==
    {[id |-> Cardinality({v \in users : Rank(v) <= Rank(u)}), post |-> p, user |-> u] :
        u \in users}

InitLikePair ==
    /\ InitAccounts /\ InitClients({}, {}, {})
    /\ stored = <<>> /\ preview = IdlePreview /\ InitMore
    /\ posts = [p \in 1..MaxPosts |->
                  [author |-> "alice", status |-> "published", content |-> PlainContent,
                   published_at |-> 1, views |-> 0]]
    /\ next_post_id = MaxPosts + 1
    /\ now = 1
    /\ \E u \in Members, p \in 1..MaxPosts :
         \E liking \in {us \in SUBSET Members : Cardinality(us) < MaxLikes} :
           /\ likes = LikeRows(liking, p)
           /\ next_like_id = Cardinality(liking) + 1
           /\ th = [t \in {"t1", "t2"} |-> [pc |-> "get", user |-> u, post |-> p, like |-> 0]]
           /\ like_prev = [pair \in Members \X (1..MaxPosts) |->
                  IF pair = <<u, p>>
                  THEN [before |-> Cardinality(LikesOf(likes, p, u)), liked |-> FALSE]
                  ELSE NoRequest]

NextLikePair ==
    \/ \E t \in Threads : LikeGet(t)
    \/ \E t \in Threads : LikeCreate(t)
    \/ \E t \in Threads : LikeGetAgain(t)
    \/ \E t \in Threads : LikeDelete(t)

SpecLikePair == InitLikePair /\ [][NextLikePair]_vars

\* the post page read by two worker threads
InitDetail ==
    /\ InitAccounts /\ InitClients({}, {}, {})
    /\ stored = <<>> /\ preview = IdlePreview /\ InitMore
    /\ posts = [p \in 1..MaxPosts |->
                  [author |-> "alice", status |-> "published", content |-> PlainContent,
                   published_at |-> 1, views |-> 0]]
    /\ next_post_id = MaxPosts + 1
    /\ likes = {} /\ next_like_id = 1 /\ now = 1
    /\ like_prev = [pair \in Members \X (1..MaxPosts) |-> NoRequest]
    /\ th = [t \in {"t1", "t2", "t3"} |-> IdleReader]

NextDetail ==
    \/ \E t \in Threads, p \in 1..(MaxPosts + 1) : DetailGet(t, p)
    \/ \E t \in Threads : DetailSave(t)

SpecDetail == InitDetail /\ [][NextDetail]_vars

\* the link preview endpoint
\* posts with their comments, and categories
InitModeration ==
    /\ InitAccounts /\ InitClients({}, {}, {}) /\ InitBlog
    /\ stored = <<>>
    /\ th = <<>>
    /\ preview = IdlePreview
    /\ comments = [c \in 1..MaxComments |-> NoComment]
    /\ categories = [k \in 1..MaxCategories |-> NoCategory]
    /\ checked = <<>>
    /\ uploads = {}

Statuses == {"draft", "published"}
Writers == {"alice", "root"}
Commenters == {"alice", "bob"}
ModerationCreateRequests ==
    \E u \in Writers : PostCreate(u, "POST", TRUE, "published", PlainContent)
PostDetailRequests ==
    \E p \in 1..MaxPosts :
        \/ PostDetail(None, p, "GET", FALSE)
        \/ \E u \in Commenters, valid \in BOOLEAN : PostDetail(u, p, "POST", valid)
CommentDeleteRequests ==
    \E u \in Requesters, c \in 1..MaxComments, m \in Methods : CommentDelete(u, c, m)
CategoryCreateRequests ==
    \E u \in Requesters, m \in Methods : \E valid \in BOOLEAN : CategoryCreate(u, m, valid)
CategoryDeleteRequests ==
    \E u \in Requesters, k \in 1..MaxCategories, m \in Methods : CategoryDelete(u, k, m)

NextModeration ==
    \/ ModerationCreateRequests
    \/ PostDeleteRequests
    \/ PostDetailRequests
    \/ CommentDeleteRequests

SpecModeration == InitModeration /\ [][NextModeration]_vars

\* the three delete views side by side
NextRemoval ==
    \/ ModerationCreateRequests
    \/ PostDeleteRequests
    \/ PostDetailRequests
    \/ CommentDeleteRequests
    \/ CategoryCreateRequests
    \/ CategoryDeleteRequests

SpecRemoval == InitModeration /\ [][NextRemoval]_vars

\* a post written, published, withdrawn and published again over time
PublishCreateRequests ==
    \E u \in Writers, status \in Statuses, content \in PostContents :
        PostCreate(u, "POST", TRUE, status, content)
PublishEditRequests ==
    \E u \in Writers, p \in 1..MaxPosts, status \in Statuses, content \in PostContents :
        PostEdit(u, p, "POST", TRUE, status, content)
PublishDetailRequests == \E p \in 1..MaxPosts : PostDetail(None, p, "GET", FALSE)

NextPublish ==
    \/ PublishCreateRequests
    \/ PublishEditRequests
    \/ PublishDetailRequests
    \/ BlogTick

SpecPublish == InitBlogOnly /\ [][NextPublish]_vars

\* uploads to the editor
Uploaders == {"alice", "root", None}
\* a file travels only in a POST that passed the CSRF check; the storage
\* outcome matters only for a file the view accepts
UploadRequestSet ==
    {r \in [u : Uploaders, method : Methods, csrf : BOOLEAN,
             up : UploadedFiles \cup {NoFile, UnreadableBody}, io : StorageOutcomes] :
        /\ (r.method = "GET" \/ ~r.csrf) => r.up = NoFile
        /\ r.method = "GET" => r.csrf
        /\ r.io # "ok" => (/\ r.up.kind = "file" /\ r.up.image
                           /\ r.up.size = 1024
                           /\ r.up.name \in {<<"photo", ".jpg">>, <<"pic", ".webp">>})}

CkeditorUploadRequests ==
    \E r \in UploadRequestSet : CkeditorUpload(r.u, r.method, r.csrf, r.up, r.io)

NextUpload == CkeditorUploadRequests

SpecUpload == InitBlogOnly /\ [][NextUpload]_vars

InitPreview == InitAccounts /\ InitClients({}, {}, {}) /\ InitBlog /\ InitStored

FetchLinkPreviewRequests ==
    \E u \in {"alice", None}, m \in Methods, param \in UrlParams :
      \E net \in (IF u # None /\ m = "POST" THEN NetOutcomes(strip(param)) ELSE {"none"}) :
        \E page \in (IF net = "page" THEN Pages ELSE {EmptyPage}) :
            FetchLinkPreviewApi(u, m, param, net, page)

NextPreview == FetchLinkPreviewRequests

SpecPreview == InitPreview /\ [][NextPreview]_vars

\* ------------------------------------------------------------ the claims
RateLimited == {"forbidden", "too_many_attempts"}

\* C1: when the counter of a client IP started empty and five login POSTs
\* from that IP followed within five minutes, none of which had its password
\* accepted, the next login POST from that IP inside the five minutes is
\* rejected as rate-limited and leaves every session as it was, whatever
\* credentials it carries.
C1_SixthLoginRejected ==
    [][\A s \in Sessions, ip \in DOMAIN life, u \in Users, cred \in Creds :
          (/\ life[ip].n = 5
           /\ life[ip].all_failed
           /\ life[ip].first_age < 300
           /\ LoginPost(s, ip, u, cred))
          => (resp' \in RateLimited /\ session_user' = session_user)]_vars

C1_Witness ==
    \E ip \in DOMAIN life :
        /\ life[ip].n = 6
        /\ life[ip].all_failed
        /\ life[ip].first_age < 300
        /\ resp \in RateLimited

\* C2: starting from an empty counter of a client IP, none of the first five
\* login POSTs from that IP within five minutes is rejected as rate-limited.
C2_FirstFiveNotRateLimited ==
    [][\A s \in Sessions, ip \in DOMAIN life, u \in Users, cred \in Creds :
          (/\ \/ cache[ip].ttl = 0
              \/ life[ip].n < 5 /\ life[ip].first_age < 300
           /\ LoginPost(s, ip, u, cred))
          => resp' \notin RateLimited]_vars

C4_NonOwnerEditForbidden ==
    [][\A u \in Members, p \in 1..MaxPosts :
          (/\ PostExists(p)
           /\ posts[p].author # u
           /\ u \notin Staff
           /\ \E m \in Methods : \E form \in FormData(m) :
                  PostEdit(u, p, m, form.valid, form.status, form.content))
          => (resp' = "edit_forbidden" /\ posts' = posts)]_vars

C4_Witness ==
    /\ resp = "edit_forbidden"
    /\ \E p \in 1..MaxPosts : PostExists(p) /\ posts[p].author \notin Staff

\* C5: when a post_like request of user u on published post p is answered
\* and the one before it for the same pair was answered too, the number of
\* PostLike rows of the pair is again what it was before the earlier
\* request; from the unliked state the earlier request answered liked=true
\* and the later one answers liked=false.
C5_LikeTwiceRestores ==
    [][\A u \in Members, p \in 1..MaxPosts :
          (/\ like_prev[<<u, p>>] # NoRequest
           /\ resp' \in {"liked", "unliked"}
           /\ PostLikeRequest(u, p, "POST"))
          => /\ Cardinality(LikesOf(likes', p, u)) = like_prev[<<u, p>>].before
             /\ like_prev[<<u, p>>].before = 0 =>
                   (like_prev[<<u, p>>].liked /\ resp' = "unliked")]_vars

C5_Witness ==
    \E u \in Members, p \in 1..MaxPosts :
        /\ like_prev[<<u, p>>] = [before |-> 1, liked |-> FALSE]
        /\ resp = "unliked"
        /\ LikesOf(likes, p, u) = {}

\* C6: a login POST from a client IP is rejected as rate-limited only if five
\* earlier login POSTs from that IP fall within the preceding five minutes
\* (no login POST that finds fewer than five is rejected as rate-limited).
C6_BlockedOnlyAfterFiveInWindow ==
    [][\A s \in Sessions, ip \in DOMAIN recent, u \in Users, cred \in Creds :
          (resp' \in RateLimited /\ Len(recent[ip]) < 5)
          => ~LoginPost(s, ip, u, cred)]_vars

\* C7: every stored rich-text value, Post.content and the rich-text fields of
\* the healthcenter models alike, holds only allow-listed tags and attributes.
C7_StoredRichTextIsClean ==
    /\ \A p \in DOMAIN posts : IsClean(posts[p].content)
    /\ \A f \in DOMAIN stored : IsClean(stored[f])

\* C8: there is at most one PostLike row per (post, user) pair, also while
\* post_like requests of the same pair are handled concurrently.
C8_OneLikePerPair ==
    \A u \in Members, p \in 1..MaxPosts : Cardinality(LikesOf(likes, p, u)) <= 1

\* two requests of one pair raced for the INSERT and the constraint refused one
C8_Witness ==
    \E t \in Threads :
        /\ th[t].pc = "get_again"
        /\ Cardinality(LikesOf(likes, th[t].post, th[t].user)) = 1

C10_EveryCheckedLoginIsLogged ==
    [][\A s \in Sessions, ip \in IPs, u \in Users, cred \in Creds :
          (/\ cred # "malformed"
           /\ session_user[s] = None
           /\ resp' \notin RateLimited
           /\ LoginPost(s, ip, u, cred))
          => /\ login_attempts' =
                   Append(login_attempts, [username |-> u, success |-> cred = "ok"])
             /\ cred = "wrong" =>
                   cache_get(cache', ip) =
                       cache_get(RateLimitMiddleware(cache, ip).cache, ip) + 1]_vars

\* C11: with login POSTs of one client IP handled concurrently, at most five
\* of them have their credentials looked at while the counter key is alive.
C11_AtMostFiveChecked ==
    \A ip \in DOMAIN checked : checked[ip] <= RATE_LIMIT

\* C12: a login POST that is rejected as rate-limited leaves the counter of
\* its client IP and the counter's expiry as they were, so that the counter
\* expires 300 seconds after the last write of an accepted POST.
C12_RejectedDoNotRefresh ==
    [][\A s \in Sessions, ip \in IPs, u \in Users, cred \in Creds :
          (resp' \in RateLimited /\ LoginPost(s, ip, u, cred))
              => cache'[ip] = cache[ip]]_vars

\* C13: when a session becomes authenticated, by login_view directly or by
\* otp_verify_view, the attempt counter of the client's IP is cleared (the
\* sessions of SpecMfa share one client IP).
C13_CounterClearedOnLogin ==
    [][\A s \in Sessions :
          (session_user[s] = None /\ session_user'[s] # None)
              => \A ip \in IPs : cache_get(cache', ip) = 0]_vars

\* C14: after any sequence of enable_mfa, confirm_mfa and disable_mfa
\* submissions, profile.mfa_enabled of a user is true exactly when the user
\* has a confirmed TOTP device.
C14_MfaEnabledIffConfirmedDevice ==
    \A u \in Users : mfa_enabled[u] <=> (DevicesOf(u, TRUE) # {})

\* a user confirmed a device, and another disabled MFA after having had it
C14_Witness ==
    /\ resp = "mfa_disabled"
    /\ \E u \in Users : mfa_enabled[u] /\ DevicesOf(u, TRUE) # {}
    /\ \E u \in Users : ~mfa_enabled[u] /\ next_device_id > 2

\* C15: mfa_setup_view keeps at most one unconfirmed TOTP device per user,
\* also when enable_mfa is submitted several times before confirming.
C15_OneUnconfirmedDevice ==
    \A u \in Users : Cardinality(DevicesOf(u, FALSE)) <= 1

\* C16: two post_like requests of one user on one published post that are
\* handled concurrently both succeed, and when both are answered the pair has
\* the PostLike rows it had before them.
C16_ConcurrentLikesRestore ==
    /\ resp # "server_error"
    /\ (\A t \in Threads : th[t].pc = "idle")
          => \A pair \in DOMAIN like_prev :
                like_prev[pair].before >= 0
                    => Cardinality(LikesOf(likes, pair[2], pair[1])) = like_prev[pair].before

\* C17: the views counters have grown by the number of post_detail requests
\* answered for published posts, whether the requests overlapped or not.
C17_EveryViewCounted ==
    SumOver([p \in DOMAIN posts |-> posts[p].views], DOMAIN posts)
        = SumOver([t \in Threads |-> th[t].done], Threads)

\* C18: a post_delete or comment_delete request of a logged-in user who is
\* neither the author of the post (of the comment) nor staff is answered
\* 403 and leaves every Post, Comment and PostLike row as it was.
C18_NonOwnerDeleteForbidden ==
    [][\A u \in Members \ Staff :
          /\ \A p \in 1..MaxPosts :
                 (/\ PostExists(p)
                  /\ posts[p].author # u
                  /\ \E m \in Methods : PostDelete(u, p, m))
                 => (/\ resp' = "delete_forbidden"
                     /\ posts' = posts /\ comments' = comments /\ likes' = likes)
          /\ \A c \in 1..MaxComments :
                 (/\ CommentExists(c)
                  /\ comments[c].author # u
                  /\ \E m \in Methods : CommentDelete(u, c, m))
                 => (/\ resp' = "comment_delete_forbidden"
                     /\ posts' = posts /\ comments' = comments)]_vars

C18_Witness ==
    /\ resp = "comment_delete_forbidden"
    /\ \E c \in 1..MaxComments, p \in 1..MaxPosts :
           /\ CommentExists(c) /\ comments[c].author \notin Staff
           /\ PostExists(p) /\ comments[c].post = p

\* C19: a GET request to post_delete, category_delete or comment_delete
\* leaves the post, the category or the comment it names stored.
C19_GetDeletesNothing ==
    [][\A u \in Requesters :
          /\ \A p \in 1..MaxPosts :
                 (PostExists(p) /\ PostDelete(u, p, "GET")) => posts'[p] = posts[p]
          /\ \A k \in 1..MaxCategories :
                 (CategoryExists(k) /\ CategoryDelete(u, k, "GET"))
                     => categories'[k] = categories[k]
          /\ \A c \in 1..MaxComments :
                 (CommentExists(c) /\ CommentDelete(u, c, "GET"))
                     => comments'[c] = comments[c]]_vars

ClaimedExtensions == {".jpg", ".jpeg", ".png", ".gif", ".webp"}
Acceptable(up) ==
    /\ up.kind = "file"
    /\ up.size <= 10 * 1024 * 1024
    /\ lower(splitext(up.name)) \in ClaimedExtensions
    /\ up.image

C21_UploadOrJsonError ==
    [][\A r \in UploadRequestSet :
          CkeditorUpload(r.u, r.method, r.csrf, r.up, r.io) =>
              /\ uploads' # uploads => Acceptable(r.up)
              /\ ~Acceptable(r.up) =>
                     /\ uploads' = uploads
                     /\ resp' = IF r.up.kind = "unreadable" THEN "json_error_500"
                                ELSE "json_error_400"]_vars

\* C21 amended: the same for a POST of a logged-in user that passed the
\* CSRF check; a POST without a valid CSRF token is answered 403, a request
\* of an anonymous user with the redirect to the login page and a request
\* of a logged-in user with another method with 405, and none of the three
\* stores anything.
C21_UploadValidated ==
    [][\A r \in UploadRequestSet :
          CkeditorUpload(r.u, r.method, r.csrf, r.up, r.io) =>
              /\ uploads' # uploads =>
                     (Acceptable(r.up) /\ r.u # None /\ r.method = "POST" /\ r.csrf)
              /\ (r.method = "POST" /\ ~r.csrf) =>
                     (uploads' = uploads /\ resp' = "csrf_forbidden")
              /\ (r.u = None /\ (r.method = "GET" \/ r.csrf)) =>
                     (uploads' = uploads /\ resp' = "redirect_login")
              /\ (r.u # None /\ r.method = "GET") =>
                     (uploads' = uploads /\ resp' = "method_not_allowed")
              /\ (r.u # None /\ r.method = "POST" /\ r.csrf /\ ~Acceptable(r.up)) =>
                     /\ uploads' = uploads
                     /\ resp' = IF r.up.kind = "unreadable" THEN "json_error_500"
                                ELSE "json_error_400"]_vars

C21_Witness ==
    /\ resp = "json_error_400"
    /\ Cardinality(uploads) = 1

====
